---- MODULE Spec2Model ----
(***************************************************************************)
(* The event-driven client of spotify-player: Client::handle_event and the *)
(* functions it calls (spotify_player/src/client.rs).  One handler runs at *)
(* a time (handle_event takes &mut self); it is cut at its suspension      *)
(* points (.await), so a state with pc = "await" is a state in which a      *)
(* remote call is in flight.                                                *)
(***************************************************************************)
EXTENDS Integers, Sequences, FiniteSets, TLC

\* ------------------------------------------------------------------ bounds
\* page fetches one pagination loop may need before the chain ends
MaxPages == 2
\* the last instant of the clock
MaxTime == 2
\* pages the UI history may hold
MaxHistory == 3
\* the last position of a page's selection cursor
MaxSelected == 1
\* items in a list handed to search_filtered_items
MaxList == 2

\* --------------------------------------------------------------- constants
\* client.rs:88  `- std::time::Duration::from_secs(10)`
Margin == 10

\* ------------------------------------------------------------------- values
\* Option<T>: None is the empty sequence, Some(v) the one-element sequence.
None == <<>>
Some(v) == <<v>>
IsSome(o) == Len(o) = 1
Unwrap(o) == o[1]

\* Result<T>: Ok(v) / Err
Ok(v) == [ok |-> TRUE, val |-> Some(v)]
Err == [ok |-> FALSE, val |-> None]

RepeatStates == {"Off", "Track", "Context"}

\* context::CurrentlyPlaybackContext, the three fields the client reads
Contexts == [is_playing : BOOLEAN, shuffle_state : BOOLEAN, repeat_state : RepeatStates]

TrackIds == {"a", "b"}
Urls == {"u1", "u2"}
PlaylistIds == {"p1"}

\* the items of one page
PageItems == {<<>>} \cup {<<t>> : t \in TrackIds}

\* page::Page<PlaylistTrack>: items and the optional next reference; the
\* `tracks` field of a FullPlaylist is its first page
Pages == [items : PageItems, next : {None} \cup {Some(u) : u \in Urls}]

\* the expiry the token endpoint reports, as seconds after the exchange
ServerTTLs == {Margin + 1}

\* the same, with the one-hour lifetime the service hands out
LongTTLs == ServerTTLs \cup {3600}

\* what get_token can yield at time t: no token, a token without expires_at,
\* a token with expires_at, for the lifetimes `ttls`
TokenResponsesFrom(t, ttls) ==
    {None} \cup {Some([expires_at |-> None])}
           \cup {Some([expires_at |-> Some(t + ttl)]) : ttl \in ttls}

TokenResponses(t) == TokenResponsesFrom(t, ServerTTLs)

Events == {"RefreshToken", "GetCurrentPlaybackContext", "NextSong", "PreviousSong",
           "ResumePause", "Shuffle", "Repeat", "Quit", "GetPlaylist",
           "GetCurrentPlaylistTracks"}

Fields == {"current_playback_context", "current_playlist",
           "current_playlist_tracks", "is_running"}

VARIABLES
    state,       \* state::State behind the RwLock
    spotify,     \* Client.spotify: None = Spotify::default() (no credentials manager)
    now,         \* the clock, in seconds
    lock,        \* "none" or "read": the RwLock guard the running handler holds
    pc,          \* "idle", "await" (a remote call is in flight) or "panicked"
    event,       \* the event being handled, or handled last
    tracks,      \* get_current_playlist_tracks: local `tracks`
    next,        \* get_current_playlist_tracks: local `next`
    calls,       \* the calls issued while handling `event`, in order
    pages,       \* the answers received while handling `event`, in order: the
                 \* pages of the pagination loop, get_token's answer, the
                 \* fetched context or playlist
    changed,     \* the fields of `state` whose value changed while handling `event`
    result,      \* "none", "ok", "err" or "panic": how handling `event` ended
    refresh_ret, \* what refresh_token returned last: None or Some(expires_at)
    streak       \* targets of the successful Repeat events handled back to back
                 \* since one that found the stored repeat_state Off

\* state::ui::UIState (spotify_player/src/state/ui/mod.rs), a lock domain of
\* its own
VARIABLES
    history,     \* UIState.history
    popup,       \* UIState.popup
    search_items, \* the list last handed to search_filtered_items
    filtered,    \* what it returned: references into the list, as indices
    ui_op,       \* the UIState operation that ran last
    ui_arg,      \* the page handed to new_page last
    ui_prev      \* history and popup as they were before that operation

client_vars == <<state, spotify, now, lock, pc, event, tracks, next, calls, pages,
                 changed, result, refresh_ret, streak>>

ui_vars == <<history, popup, search_items, filtered, ui_op, ui_arg, ui_prev>>

vars == <<client_vars, ui_vars>>

\* ------------------------------------------------------------ pure helpers

\* a cycle_repeat that runs the cycle backwards
next_repeat_state_reversed(r) ==
    CASE r = "Off" -> "Context"
      [] r = "Track" -> "Off"
      [] r = "Context" -> "Track"

\* a cycle_repeat that never leaves Context for Off
next_repeat_state_no_wrap(r) ==
    CASE r = "Off" -> "Track"
      [] r = "Track" -> "Context"
      [] r = "Context" -> "Track"

\* client.rs:122-126
next_repeat_state(r) ==
    CASE r = "Off" -> "Track"
      [] r = "Track" -> "Context"
      [] r = "Context" -> "Off"

\* a refresh_token that returns the reported expiry as it is
refresh_expires_at_no_margin(token) == Unwrap(token.expires_at)

\* a get_current_playback_state that falls back to a default context
get_current_playback_state_default(st) ==
    IF IsSome(st.current_playback_context)
    THEN Ok(Unwrap(st.current_playback_context))
    ELSE Ok([is_playing |-> FALSE, shuffle_state |-> FALSE, repeat_state |-> "Off"])

\* client.rs:221-228: Ok(&context) or Err
get_current_playback_state(st) ==
    IF IsSome(st.current_playback_context)
    THEN Ok(Unwrap(st.current_playback_context))
    ELSE Err

\* client.rs:133: the argument handed to spotify.shuffle
shuffle_target(ctx) == ctx.shuffle_state

\* a toggle_playing_state with its branches exchanged
playing_state_call_inverted(ctx) ==
    IF ctx.is_playing THEN "start_playback" ELSE "pause_playback"

\* client.rs:139-143: the call toggle_playing_state makes
playing_state_call(ctx) ==
    IF ctx.is_playing THEN "pause_playback" ELSE "start_playback"

\* a loop that puts each fetched page in front of the accumulated tracks
append_in_front(trk, items) == items \o trk

\* client.rs:108: tracks.append(&mut paged_tracks.items)
append(trk, items) == trk \o items

\* client.rs:203-210: a Spotify client with a credentials manager holding the token
get_spotify_client(token) == Some(token)

\* client.rs:86-89: the expires_at refresh_token returns
refresh_expires_at(token) == Unwrap(token.expires_at) - Margin

\* the fields in which two values of State differ
Diff(s, t) == {f \in Fields : s[f] # t[f]}

Call(op, arg) == [op |-> op, arg |-> arg]

\* ------------------------------------------------------------ UIState values

\* PageState: the variant, what it shows, and its selection cursor
LibraryPage(sel) == [kind |-> "Library", id |-> <<>>, selected |-> sel]
ContextPage(id, sel) == [kind |-> "Context", id |-> id, selected |-> sel]

ContextUris == {"x"}

\* mod.rs:64-71: the page new_radio_page builds: a Context page browsing the
\* tracks "radio:{uri}", with no state yet
radio_page(uri) == ContextPage(<<"radio:", uri>>, 0)

\* the pages callers hand to new_page
PageStates ==
    {LibraryPage(sel) : sel \in 0..MaxSelected}
    \cup {ContextPage(<<u>>, sel) : u \in ContextUris, sel \in 0..MaxSelected}

\* PopupState: Search { query }, or one of the focused popups
SearchPopup(q) == [kind |-> "Search", query |-> q]
OtherPopup == [kind |-> "Other", query |-> <<>>]

\* strings are sequences of characters
Queries == {<<>>, <<"f", "o", "o">>, <<"F", "o">>, <<" ">>, <<"o", " ", "b">>,
            <<"b", " ">>, <<"z", "z">>}

ItemTexts == {<<"F", "o", "o", "b", "a", "r">>, <<"b", "a", "z">>,
              <<"f", "o", "o", "d">>, <<"b", " ">>}

ItemLists ==
    UNION {[1..n -> ItemTexts] : n \in 0..MaxList}
    \cup {<< <<"F", "o", "o", "b", "a", "r">>, <<"b", "a", "z">>, <<"f", "o", "o", "d">> >>}

Popups == {None, Some(OtherPopup)} \cup {Some(SearchPopup(q)) : q \in Queries}

\* mod.rs:120-122: the history of UIState::default()
default_history == <<LibraryPage(0)>>

\* -------------------------------------------------------- UIState operations

\* PageState::select (state/ui/page.rs): moves the page's selection cursor
select(page, i) == [page EXCEPT !.selected = i]

\* mod.rs:43-49: the last page of the history
current_page(h) == h[Len(h)]

\* a new_page that starts the history over with the new page
new_page_reset(u, page) == [history |-> <<page>>, popup |-> None]

\* a new_page that leaves the popup open
new_page_keep_popup(u, page) == [history |-> Append(u.history, page), popup |-> u.popup]

\* mod.rs:58-61
new_page(u, page) == [history |-> Append(u.history, page), popup |-> None]

\* mod.rs:63-72
new_radio_page(u, uri) == new_page(u, radio_page(uri))

\* a new_search_popup that leaves the selection where it was
new_search_popup_keep_cursor(u) ==
    [history |-> u.history, popup |-> Some(SearchPopup(<<>>))]

\* mod.rs:51-56
new_search_popup(u) ==
    [history |-> [u.history EXCEPT ![Len(u.history)] = select(current_page(u.history), 0)],
     popup |-> Some(SearchPopup(<<>>))]

\* str::to_lowercase, on the characters the model uses
lower(c) == IF c = "F" THEN "f" ELSE c

to_lowercase(str) == [i \in 1..Len(str) |-> lower(str[i])]

\* a contains that only looks at the start of the text
contains_at_start(t, q) == Len(q) <= Len(t) /\ SubSeq(t, 1, Len(q)) = q

\* str::contains
contains(t, q) == \E i \in 0..(Len(t) - Len(q)) : SubSeq(t, i + 1, i + Len(q)) = q

\* str::split(' '): the pieces between the spaces, empty ones included
RECURSIVE split(_)
split(q) ==
    IF \A i \in 1..Len(q) : q[i] # " "
    THEN <<q>>
    ELSE LET i == CHOOSE j \in 1..Len(q) : q[j] = " " /\ \A k \in 1..(j - 1) : q[k] # " "
         IN  <<SubSeq(q, 1, i - 1)>> \o split(SubSeq(q, i + 1, Len(q)))

\* a filter without the `query.is_empty()` test
matches_no_empty_test(query, text) ==
    \E k \in 1..Len(split(query)) :
        split(query)[k] # <<>> /\ contains(to_lowercase(text), split(query)[k])

\* mod.rs:94-105, in a build without the "fzf" feature (line 102): the closure
\* of the filter, `query` being the lowercased query
matches(query, text) ==
    IF query = <<>>
    THEN TRUE
    ELSE \E k \in 1..Len(split(query)) :
            split(query)[k] # <<>> /\ contains(to_lowercase(text), split(query)[k])

\* mod.rs:85-110: the references returned, as indices into `its`
search_filtered_items(pop, its) ==
    IF IsSome(pop) /\ Unwrap(pop).kind = "Search"
    THEN SelectSeq([i \in 1..Len(its) |-> i],
                   LAMBDA i : matches(to_lowercase(Unwrap(pop).query), its[i]))
    ELSE [i \in 1..Len(its) |-> i]

\* ------------------------------------------------------------------- Init
\* State::default(), Client::new
Init ==
    /\ state = [current_playback_context |-> None,
                current_playlist |-> None,
                current_playlist_tracks |-> None,
                is_running |-> TRUE]
    /\ spotify = None
    /\ now = 0
    /\ lock = "none"
    /\ pc = "idle"
    /\ event = "none"
    /\ tracks = <<>>
    /\ next = None
    /\ calls = <<>>
    /\ pages = <<>>
    /\ changed = {}
    /\ result = "none"
    /\ refresh_ret = None
    /\ streak = <<>>
    /\ history = default_history
    /\ popup = None
    /\ search_items = <<>>
    /\ filtered = <<>>
    /\ ui_op = "default"
    /\ ui_arg = None
    /\ ui_prev = [history |-> default_history, popup |-> None]


\* -------------------------------------------------- handle_event, by branch

\* client.rs:76-90: what refresh_token does with get_token's answer `tok`:
\* Err("auth failed") for no token, a panic (`expect`) for a token without
\* expires_at, otherwise a new Spotify client and Ok(expires_at - 10 s)
refresh_token(sp, tok) ==
    IF ~IsSome(tok)
    THEN [kind |-> "err", spotify |-> sp, ret |-> None]
    ELSE IF ~IsSome(Unwrap(tok).expires_at)
    THEN [kind |-> "panic", spotify |-> sp, ret |-> None]
    ELSE [kind |-> "ok", spotify |-> get_spotify_client(Unwrap(tok)),
          ret |-> Some(refresh_expires_at(Unwrap(tok)))]

\* client.rs:33-34: `?`, then the write of current_playback_context
commit_context(st, r) ==
    IF r.ok THEN [st EXCEPT !.current_playback_context = Unwrap(r.val)] ELSE st

\* a handler that forgets the old track list when a playlist arrives
commit_playlist_reset_tracks(st, r) ==
    IF r.ok
    THEN [st EXCEPT !.current_playlist = Some(Unwrap(r.val)),
                    !.current_playlist_tracks = None]
    ELSE st

\* client.rs:58-59: `?`, then the write of current_playlist
commit_playlist(st, r) ==
    IF r.ok THEN [st EXCEPT !.current_playlist = Some(Unwrap(r.val))] ELSE st

\* a handler that stores a track list only when it has tracks
commit_tracks_skip_empty(st, r) ==
    IF r.ok /\ Unwrap(r.val) # <<>>
    THEN [st EXCEPT !.current_playlist_tracks = Some(Unwrap(r.val))]
    ELSE st

\* a handler that stores the tracks without looking at the result first
commit_tracks_unchecked(st, r) ==
    [st EXCEPT !.current_playlist_tracks = Some(IF r.ok THEN Unwrap(r.val) ELSE <<>>)]

\* client.rs:62-63: `?`, then the write of current_playlist_tracks
commit_tracks(st, r) ==
    IF r.ok THEN [st EXCEPT !.current_playlist_tracks = Some(Unwrap(r.val))] ELSE st

\* a Quit that flips the flag instead of clearing it
quit_toggle(st) == [st EXCEPT !.is_running = ~st.is_running]

\* client.rs:55
quit(st) == [st EXCEPT !.is_running = FALSE]

\* client.rs:66 / the `?`s: the handler returns Ok(()) or Err
result_of(r) == IF r.ok THEN "ok" ELSE "err"

\* client.rs:177-187: get_auth_token panics (`expect`) when the Spotify client
\* has no credentials manager, which is the case until a refresh succeeded
get_auth_token(sp) == IF IsSome(sp) THEN "bearer" ELSE "panic"

\* client.rs:120-127, 131-133, 137-143: the call an action function makes for
\* the playback context it found
action_call(ev, ctx) ==
    CASE ev = "ResumePause" -> Call(playing_state_call(ctx), <<>>)
      [] ev = "Shuffle" -> Call("shuffle", <<shuffle_target(ctx)>>)
      [] ev = "Repeat" -> Call("repeat", <<next_repeat_state(ctx.repeat_state)>>)

\* a handle_event that takes &self: a handler starts while another is suspended
Start_shared(ev) ==
    /\ pc \in {"idle", "await"}
    /\ event' = ev
    /\ pages' = <<>>

\* a handler starts: only when none is running (handle_event takes &mut self)
Start(ev) ==
    /\ pc = "idle"
    /\ event' = ev
    /\ pages' = <<>>

\* client.rs:29-31, up to get_token(...).await
RefreshToken ==
    /\ Start("RefreshToken")
    /\ calls' = <<Call("get_token", <<>>)>>
    /\ pc' = "await"
    /\ result' = "none"
    /\ changed' = {}
    /\ streak' = <<>>
    /\ UNCHANGED <<state, spotify, now, lock, tracks, next, refresh_ret>>
    /\ UNCHANGED ui_vars

\* client.rs:77-90, 30: get_token answered with one of `toks`
RefreshTokenAnswered(toks) ==
    /\ pc = "await"
    /\ event = "RefreshToken"
    /\ \E tok \in toks :
         LET r == refresh_token(spotify, tok) IN
         /\ spotify' = r.spotify
         /\ refresh_ret' = r.ret
         /\ result' = r.kind
         /\ pc' = IF r.kind = "panic" THEN "panicked" ELSE "idle"
         /\ pages' = <<tok>>
    /\ UNCHANGED <<state, now, lock, event, tracks, next, calls, changed, streak>>
    /\ UNCHANGED ui_vars

RefreshTokenReturn == RefreshTokenAnswered(TokenResponses(now))

RefreshTokenReturnLong == RefreshTokenAnswered(TokenResponsesFrom(now, LongTTLs))

\* client.rs:32-33, up to get_current_playback().await
GetCurrentPlaybackContext ==
    /\ Start("GetCurrentPlaybackContext")
    /\ calls' = <<Call("current_playback", <<>>)>>
    /\ pc' = "await"
    /\ result' = "none"
    /\ changed' = {}
    /\ streak' = <<>>
    /\ UNCHANGED <<state, spotify, now, lock, tracks, next, refresh_ret>>
    /\ UNCHANGED ui_vars

\* client.rs:33-34, 171-173: the fetch answered, with an error or an optional context
GetCurrentPlaybackReturn ==
    /\ pc = "await"
    /\ event = "GetCurrentPlaybackContext"
    /\ \E r \in {Err} \cup {Ok(c) : c \in {None} \cup {Some(x) : x \in Contexts}} :
         /\ state' = commit_context(state, r)
         /\ result' = result_of(r)
         /\ pages' = r.val
    /\ changed' = changed \cup Diff(state, state')
    /\ pc' = "idle"
    /\ UNCHANGED <<spotify, now, lock, event, tracks, next, calls, refresh_ret, streak>>
    /\ UNCHANGED ui_vars

\* client.rs:36-38, 161-163, up to next_track(None).await
NextSong ==
    /\ Start("NextSong")
    /\ calls' = <<Call("next_track", <<>>)>>
    /\ pc' = "await"
    /\ result' = "none"
    /\ changed' = {}
    /\ streak' = <<>>
    /\ UNCHANGED <<state, spotify, now, lock, tracks, next, refresh_ret>>
    /\ UNCHANGED ui_vars

\* client.rs:39-41, 166-168, up to previous_track(None).await
PreviousSong ==
    /\ Start("PreviousSong")
    /\ calls' = <<Call("previous_track", <<>>)>>
    /\ pc' = "await"
    /\ result' = "none"
    /\ changed' = {}
    /\ streak' = <<>>
    /\ UNCHANGED <<state, spotify, now, lock, tracks, next, refresh_ret>>
    /\ UNCHANGED ui_vars

\* client.rs:42-53 with 120-144: ResumePause, Shuffle, Repeat.  The read guard
\* taken in handle_event is moved into the action function and lives until
\* that function returns: it is dropped at once on the Err of
\* get_current_playback_state, and otherwise held over the call's .await.
ActionEvent(ev) ==
    /\ Start(ev)
    /\ LET r == get_current_playback_state(state) IN
         IF r.ok
         THEN /\ calls' = <<action_call(ev, Unwrap(r.val))>>
              /\ lock' = "read"
              /\ pc' = "await"
              /\ result' = "none"
         ELSE /\ calls' = <<>>
              /\ lock' = "none"
              /\ pc' = "idle"
              /\ result' = "err"
    /\ changed' = {}
    /\ streak' = IF ev = "Repeat" /\ get_current_playback_state(state).ok
                 THEN streak ELSE <<>>
    /\ UNCHANGED <<state, spotify, now, tracks, next, refresh_ret>>
    /\ UNCHANGED ui_vars

ResumePause == ActionEvent("ResumePause")

Shuffle == ActionEvent("Shuffle")

Repeat == ActionEvent("Repeat")

\* client.rs:127, 133, 140-142, 162, 167 with 213-218: a playback call answered;
\* the action function returns and its read guard, if any, is dropped
AdapterReturn ==
    /\ pc = "await"
    /\ event \in {"NextSong", "PreviousSong", "ResumePause", "Shuffle", "Repeat"}
    /\ \E r \in {Err, Ok(<<>>)} :
         /\ result' = result_of(r)
         /\ streak' =
              IF event = "Repeat" /\ r.ok
              THEN IF streak = <<>>
                   THEN IF Unwrap(state.current_playback_context).repeat_state = "Off"
                        THEN <<calls[1].arg[1]>> ELSE <<>>
                   ELSE IF Len(streak) < 3 THEN Append(streak, calls[1].arg[1]) ELSE streak
              ELSE <<>>
    /\ lock' = "none"
    /\ pc' = "idle"
    /\ UNCHANGED <<state, spotify, now, event, tracks, next, calls, pages, changed, refresh_ret>>
    /\ UNCHANGED ui_vars

\* client.rs:54-56
Quit ==
    /\ Start("Quit")
    /\ state' = quit(state)
    /\ changed' = Diff(state, state')
    /\ calls' = <<>>
    /\ result' = "ok"
    /\ streak' = <<>>
    /\ UNCHANGED <<spotify, now, lock, pc, tracks, next, refresh_ret>>
    /\ UNCHANGED ui_vars

\* client.rs:57-58, 115-117, up to playlist(...).await
GetPlaylist ==
    /\ Start("GetPlaylist")
    /\ \E id \in PlaylistIds : calls' = <<Call("playlist", <<id>>)>>
    /\ pc' = "await"
    /\ result' = "none"
    /\ changed' = {}
    /\ streak' = <<>>
    /\ UNCHANGED <<state, spotify, now, lock, tracks, next, refresh_ret>>
    /\ UNCHANGED ui_vars

\* client.rs:58-59: the playlist answered; its first page may name a next page
GetPlaylistReturn ==
    /\ pc = "await"
    /\ event = "GetPlaylist"
    /\ \E r \in {Err} \cup {Ok(p) : p \in Pages} :
         /\ state' = commit_playlist(state, r)
         /\ result' = result_of(r)
         /\ pages' = r.val
    /\ changed' = changed \cup Diff(state, state')
    /\ pc' = "idle"
    /\ UNCHANGED <<spotify, now, lock, event, tracks, next, calls, refresh_ret, streak>>
    /\ UNCHANGED ui_vars

\* client.rs:102-112, 62-63: the pagination loop from its head, with `trk`
\* accumulated and `nxt` the next reference, up to the next .await or the end.
\* The read guard of line 99 is a temporary of the `if let` scrutinee: it
\* lives to the end of the `if let`, so it is held over every fetch.
Paginate(trk, nxt, issued, touched) ==
    IF ~IsSome(nxt)
    THEN /\ state' = commit_tracks(state, Ok(trk))
         /\ changed' = touched \cup Diff(state, state')
         /\ calls' = issued
         /\ tracks' = <<>>
         /\ next' = None
         /\ lock' = "none"
         /\ pc' = "idle"
         /\ result' = "ok"
    ELSE IF get_auth_token(spotify) = "panic"
    THEN /\ calls' = issued
         /\ changed' = touched
         /\ tracks' = <<>>
         /\ next' = None
         /\ lock' = "none"
         /\ pc' = "panicked"
         /\ result' = "panic"
         /\ UNCHANGED state
    ELSE /\ calls' = Append(issued, Call("internal_call", <<Unwrap(nxt)>>))
         /\ changed' = touched
         /\ tracks' = trk
         /\ next' = nxt
         /\ lock' = "read"
         /\ pc' = "await"
         /\ result' = "none"
         /\ UNCHANGED state

\* client.rs:61-62, 98-101
GetCurrentPlaylistTracks ==
    /\ Start("GetCurrentPlaylistTracks")
    /\ IF IsSome(state.current_playlist)
       THEN Paginate(Unwrap(state.current_playlist).items,
                     Unwrap(state.current_playlist).next, <<>>, {})
       ELSE Paginate(<<>>, None, <<>>, {})
    /\ streak' = <<>>
    /\ UNCHANGED <<spotify, now, refresh_ret>>
    /\ UNCHANGED ui_vars

\* client.rs:104-109: a page fetch answered, with an error (`?` returns it and
\* the accumulated tracks are dropped) or with a page
PageReturn ==
    /\ pc = "await"
    /\ event = "GetCurrentPlaylistTracks"
    /\ \/ /\ result' = "err"
          /\ pc' = "idle"
          /\ lock' = "none"
          /\ tracks' = <<>>
          /\ next' = None
          /\ state' = commit_tracks(state, Err)
          /\ changed' = changed \cup Diff(state, state')
          /\ UNCHANGED <<calls, pages>>
       \/ \E pg \in Pages :
            /\ IsSome(pg.next) => Len(pages) + 1 < MaxPages
            /\ pages' = Append(pages, pg)
            /\ Paginate(append(tracks, pg.items), pg.next, calls, changed)
    /\ UNCHANGED <<spotify, now, event, refresh_ret, streak>>
    /\ UNCHANGED ui_vars

\* the clock advances
Tick ==
    /\ now < MaxTime
    /\ now' = now + 1
    /\ UNCHANGED <<state, spotify, lock, pc, event, tracks, next, calls, pages,
                   changed, result, refresh_ret, streak>>
    /\ UNCHANGED ui_vars

Next ==
    \/ RefreshToken
    \/ RefreshTokenReturn
    \/ GetCurrentPlaybackContext
    \/ GetCurrentPlaybackReturn
    \/ NextSong
    \/ PreviousSong
    \/ ResumePause
    \/ Shuffle
    \/ Repeat
    \/ AdapterReturn
    \/ Quit
    \/ GetPlaylist
    \/ GetPlaylistReturn
    \/ GetCurrentPlaylistTracks
    \/ PageReturn

Spec == Init /\ [][Next]_vars

\* ---------------------------------------------------------- UIState, by operation

UINow == [history |-> history, popup |-> popup]

\* mod.rs:58-61
NewPage ==
    /\ Len(history) < MaxHistory
    /\ \E page \in PageStates :
         /\ history' = new_page(UINow, page).history
         /\ popup' = new_page(UINow, page).popup
         /\ ui_arg' = Some(page)
    /\ ui_op' = "new_page"
    /\ ui_prev' = UINow
    /\ UNCHANGED <<search_items, filtered>>
    /\ UNCHANGED client_vars

\* mod.rs:63-72
NewRadioPage ==
    /\ Len(history) < MaxHistory
    /\ \E uri \in ContextUris :
         /\ history' = new_radio_page(UINow, uri).history
         /\ popup' = new_radio_page(UINow, uri).popup
         /\ ui_arg' = Some(radio_page(uri))
    /\ ui_op' = "new_radio_page"
    /\ ui_prev' = UINow
    /\ UNCHANGED <<search_items, filtered>>
    /\ UNCHANGED client_vars

\* mod.rs:51-56; current_page_mut panics (`expect`) on an empty history
NewSearchPopup ==
    /\ IF Len(history) = 0
       THEN /\ ui_op' = "panic"
            /\ UNCHANGED <<history, popup>>
       ELSE /\ history' = new_search_popup(UINow).history
            /\ popup' = new_search_popup(UINow).popup
            /\ ui_op' = "new_search_popup"
    /\ ui_prev' = UINow
    /\ UNCHANGED <<search_items, filtered, ui_arg>>
    /\ UNCHANGED client_vars

\* mod.rs:32: `pub popup`, written by the command handlers: a popup is opened
\* or closed, the search query is typed
SetPopup ==
    /\ \E p \in Popups : popup' = p
    /\ ui_op' = "set_popup"
    /\ ui_prev' = UINow
    /\ UNCHANGED <<history, search_items, filtered, ui_arg>>
    /\ UNCHANGED client_vars

\* mod.rs:85-110
SearchFilteredItems ==
    /\ \E its \in ItemLists :
         /\ search_items' = its
         /\ filtered' = search_filtered_items(popup, its)
    /\ ui_op' = "search_filtered_items"
    /\ ui_prev' = UINow
    /\ UNCHANGED <<history, popup, ui_arg>>
    /\ UNCHANGED client_vars

\* the page history and the popup
NextUI ==
    \/ NewPage
    \/ NewRadioPage
    \/ NewSearchPopup
    \/ SetPopup

SpecUI == Init /\ [][NextUI]_vars

\* the search filter over the popup
NextFilter ==
    \/ SetPopup
    \/ NewSearchPopup
    \/ SearchFilteredItems

SpecFilter == Init /\ [][NextFilter]_vars

\* The same client with the clock running, for the events that need a session:
\* the token refresh, the playback calls that read no state, and the playlist
\* fetches.
NextClock ==
    \/ Tick
    \/ RefreshToken
    \/ RefreshTokenReturn
    \/ NextSong
    \/ PreviousSong
    \/ AdapterReturn
    \/ GetPlaylist
    \/ GetPlaylistReturn
    \/ GetCurrentPlaylistTracks
    \/ PageReturn

SpecClock == Init /\ [][NextClock]_vars

\* The session manager alone, with the clock running and both token lifetimes:
\* the token refresh and the playback calls that read no state.
NextToken ==
    \/ Tick
    \/ RefreshToken
    \/ RefreshTokenReturnLong
    \/ NextSong
    \/ PreviousSong
    \/ AdapterReturn

SpecToken == Init /\ [][NextToken]_vars


\* ------------------------------------------------------------------ claims

Stored == Unwrap(state.current_playback_context)

HasContext == IsSome(state.current_playback_context)

\* C1: no handler holds a lock on the application state while a remote call is
\* in flight.
C1_NoLockAcrossCall == pc = "await" => lock = "none"

\* C2: Shuffle issues exactly one shuffle call, whose target is the negation
\* of the stored shuffle_state, and writes nothing to the state.
C2_ShuffleNegated ==
    (event = "Shuffle" /\ HasContext) =>
        /\ Len(calls) = 1
        /\ calls[1].op = "shuffle"
        /\ calls[1].arg = <<~Stored.shuffle_state>>
        /\ changed = {}

\* a step that issues a playback call, a playlist fetch or a page fetch
IssuesRemoteCall ==
    /\ pc' = "await"
    /\ pc = "idle" \/ Len(calls') > Len(calls)
    /\ calls'[Len(calls')].op # "get_token"

\* C3: whenever a remote call is issued, a session obtained by a successful
\* refresh exists and the clock is before its expires_at.
C3_NoCallOnExpiredSession ==
    [][IssuesRemoteCall =>
         /\ IsSome(spotify)
         /\ now < refresh_expires_at(Unwrap(spotify))]_vars

\* C4 as claimed: from a stored repeat_state Off, three successful Repeat
\* events in a row carry the targets Track, Context, Off.
C4_ThreeRepeatsCycle ==
    Len(streak) = 3 => streak = <<"Track", "Context", "Off">>

\* C4 as amended: from a stored repeat_state Off, three successful Repeat
\* events in a row leave the stored repeat_state Off and each carry the
\* target Track, the successor of the stored state.
C4_ThreeRepeatsSameTarget ==
    Len(streak) = 3 =>
        /\ streak = <<"Track", "Track", "Track">>
        /\ HasContext
        /\ Stored.repeat_state = "Off"

C4_Witness ==
    /\ Len(streak) = 3
    /\ event = "Repeat"
    /\ result = "ok"
    /\ pc = "idle"

\* the cycle Off -> Track -> Context -> Off
CycleSuccessor == [r \in RepeatStates |->
                     IF r = "Off" THEN "Track" ELSE IF r = "Track" THEN "Context" ELSE "Off"]

\* C5: a Repeat event on a stored context issues exactly one set-repeat call,
\* whose target is the successor of the stored repeat_state in the cycle.
C5_RepeatSuccessor ==
    (event = "Repeat" /\ HasContext) =>
        /\ Len(calls) = 1
        /\ calls[1].op = "repeat"
        /\ calls[1].arg = <<CycleSuccessor[Stored.repeat_state]>>

C5_Witness ==
    /\ event = "Repeat"
    /\ HasContext
    /\ Stored.repeat_state = "Context"
    /\ pc = "idle"
    /\ result = "ok"
    /\ calls[1].arg = <<"Off">>

\* C6: a ResumePause event on a stored context issues exactly one call: pause
\* when is_playing, resume (start_playback) when not.
C6_ResumePauseOneCall ==
    (event = "ResumePause" /\ HasContext) =>
        /\ Len(calls) = 1
        /\ Stored.is_playing => calls[1].op = "pause_playback"
        /\ ~Stored.is_playing => calls[1].op = "start_playback"

C6_Witness ==
    /\ event = "ResumePause"
    /\ HasContext
    /\ ~Stored.is_playing
    /\ pc = "idle"
    /\ result = "ok"
    /\ calls[1].op = "start_playback"

\* C7: with no stored playback context, ResumePause, Shuffle and Repeat end in
\* an error, issue no remote call and leave the state unchanged.
C7_AbsentContextFails ==
    (event \in {"ResumePause", "Shuffle", "Repeat"} /\ ~HasContext) =>
        /\ pc = "idle"
        /\ result = "err"
        /\ Len(calls) = 0
        /\ changed = {}
        /\ lock = "none"

C7_Witness ==
    /\ event = "Shuffle"
    /\ ~HasContext
    /\ result = "err"
    /\ IsSome(state.current_playlist)

\* the items of a sequence of pages, in order
RECURSIVE Flatten(_)
Flatten(ps) == IF ps = <<>> THEN <<>> ELSE Head(ps).items \o Flatten(Tail(ps))

RECURSIVE SumLen(_)
SumLen(ps) == IF ps = <<>> THEN 0 ELSE Len(Head(ps).items) + SumLen(Tail(ps))

\* the next reference the i-th fetch follows
NextRef(i) == IF i = 1 THEN Unwrap(state.current_playlist).next ELSE pages[i - 1].next

\* C8: a successful GetCurrentPlaylistTracks on a stored playlist stores the
\* first page's items followed by every fetched page's items in fetch order;
\* the length is the sum of the page lengths, and one fetch is issued per
\* next reference, to the referenced page.
C8_TracksAreConcatenation ==
    (event = "GetCurrentPlaylistTracks" /\ result = "ok" /\ IsSome(state.current_playlist)) =>
        LET first == Unwrap(state.current_playlist)
            got == Unwrap(state.current_playlist_tracks)
            chain == <<first>> \o pages
        IN  /\ IsSome(state.current_playlist_tracks)
            /\ got = first.items \o Flatten(pages)
            /\ Len(got) = Len(first.items) + SumLen(pages)
            /\ Len(calls) = Len(pages)
            /\ Len(calls) = Cardinality({i \in 1..Len(chain) : IsSome(chain[i].next)})
            /\ ~IsSome(chain[Len(chain)].next)
            /\ \A i \in 1..Len(calls) :
                 /\ calls[i].op = "internal_call"
                 /\ IsSome(NextRef(i))
                 /\ calls[i].arg = <<Unwrap(NextRef(i))>>

C8_Witness ==
    /\ event = "GetCurrentPlaylistTracks"
    /\ result = "ok"
    /\ Len(pages) = 2
    /\ state.current_playlist_tracks = Some(<<"a", "b", "a">>)
    /\ calls[1].arg = <<"u1">>
    /\ calls[2].arg = <<"u2">>

\* C9: when an event ends in an error the state is what it was before the
\* event: no field changed, no partial track list was stored, no call is in
\* flight and the failing page fetch was the last one issued.
C9_ErrorLeavesState ==
    result = "err" =>
        /\ changed = {}
        /\ pc = "idle"
        /\ lock = "none"
        /\ event = "GetCurrentPlaylistTracks" =>
             /\ Len(calls) = Len(pages) + 1
             /\ tracks = <<>>

C9_Witness ==
    /\ result = "err"
    /\ event = "GetCurrentPlaylistTracks"
    /\ Len(pages) = 1
    /\ pages[1].items = <<"b">>
    /\ state.current_playlist_tracks = Some(<<"a">>)

\* C10: handling an event never terminates the process: it ends in success or
\* in an error value, and later events are still handled.
C10_NeverTerminates == pc # "panicked" /\ result # "panic"


\* C11: after a Quit event is handled is_running is false, and no later event
\* (a further Quit included) sets it back to true.
C11_QuitIsTerminal ==
    /\ []((event = "Quit" /\ result = "ok") => ~state.is_running)
    /\ [][~state.is_running => ~state'.is_running]_vars

C11_Witness ==
    /\ ~state.is_running
    /\ event = "GetCurrentPlaybackContext"
    /\ result = "ok"
    /\ HasContext


\* the step in which refresh_token returns
RefreshReturns == pc = "await" /\ event = "RefreshToken" /\ pc' # "await"

C13_HistoryNonEmpty ==
    /\ Len(history) >= 1
    /\ history[1].kind = "Library"
    /\ ui_op # "panic"
    /\ Len(history) >= Len(ui_prev.history)
    /\ \A i \in 1..Len(ui_prev.history) :
         /\ history[i].kind = ui_prev.history[i].kind
         /\ history[i].id = ui_prev.history[i].id

C13_Witness ==
    /\ ui_op = "new_search_popup"
    /\ Len(history) = 3
    /\ history[2].kind = "Context"
    /\ history[3].kind = "Context"

\* C14: new_page, and new_radio_page through it, leaves the popup absent
\* whatever it was, makes the pushed page the current page, grows the history
\* by one and leaves the earlier entries as they were.
C14_PushPage ==
    ui_op \in {"new_page", "new_radio_page"} =>
        /\ popup = None
        /\ IsSome(ui_arg)
        /\ current_page(history) = Unwrap(ui_arg)
        /\ Len(history) = Len(ui_prev.history) + 1
        /\ SubSeq(history, 1, Len(history) - 1) = ui_prev.history
        /\ ui_op = "new_radio_page" =>
             /\ current_page(history).kind = "Context"
             /\ current_page(history).id[1] = "radio:"

C14_Witness ==
    /\ ui_op = "new_radio_page"
    /\ IsSome(ui_prev.popup)
    /\ Unwrap(ui_prev.popup).kind = "Search"
    /\ Unwrap(ui_prev.popup).query # <<>>
    /\ popup = None
    /\ Len(history) = 3

\* C15: new_search_popup moves the current page's selection cursor to index 0
\* and sets the popup to Search with an empty query, whatever popup was open;
\* the history keeps its length and its pages.
C15_SearchPopup ==
    ui_op = "new_search_popup" =>
        /\ current_page(history).selected = 0
        /\ popup = Some(SearchPopup(<<>>))
        /\ Len(history) = Len(ui_prev.history)
        /\ \A i \in 1..Len(history) :
             /\ history[i].kind = ui_prev.history[i].kind
             /\ history[i].id = ui_prev.history[i].id
             /\ i < Len(history) => history[i] = ui_prev.history[i]

C15_Witness ==
    /\ ui_op = "new_search_popup"
    /\ current_page(ui_prev.history).selected = 1
    /\ ui_prev.popup = Some(OtherPopup)
    /\ Len(history) = 2

\* text contains q, case ignored
ContainsIgnoringCase(text, q) ==
    \E off \in 0..(Len(text) - Len(q)) :
        \A k \in 1..Len(q) : lower(text[off + k]) = lower(q[k])

\* the non-empty pieces of q between its spaces
Tokens(q) ==
    {SubSeq(q, i, j) : <<i, j>> \in
        {w \in (1..Len(q)) \X (1..Len(q)) :
            /\ w[1] <= w[2]
            /\ \A k \in w[1]..w[2] : q[k] # " "
            /\ w[1] = 1 \/ q[w[1] - 1] = " "
            /\ w[2] = Len(q) \/ q[w[2] + 1] = " "}}

\* the indices of the items that satisfy Keep, in order
Kept(its, Keep(_)) == SelectSeq([i \in 1..Len(its) |-> i], Keep)

SearchActive == IsSome(popup) /\ Unwrap(popup).kind = "Search"

Searched == ui_op = "search_filtered_items"

\* C16 as claimed: with a Search popup and a non-empty query the result is
\* exactly the items that contain the query as a case-insensitive substring.
C16_SubstringOfQuery ==
    (Searched /\ SearchActive /\ Unwrap(popup).query # <<>>) =>
        filtered = Kept(search_items,
                        LAMBDA i : ContainsIgnoringCase(search_items[i], Unwrap(popup).query))

\* C16 as amended: the result is exactly the items that contain, case ignored,
\* at least one non-empty space-separated piece of the query, in their
\* original order and each at most once; for a query without a space these
\* are the items containing the query ("foo" over Foobar, baz, food gives
\* Foobar, food).
C16_SubstringOfToken ==
    (Searched /\ SearchActive /\ Unwrap(popup).query # <<>>) =>
        LET q == Unwrap(popup).query IN
        /\ filtered = Kept(search_items,
                           LAMBDA i : \E t \in Tokens(q) :
                                         ContainsIgnoringCase(search_items[i], t))
        /\ \A a, b \in 1..Len(filtered) : a < b => filtered[a] < filtered[b]
        /\ (\A k \in 1..Len(q) : q[k] # " ") =>
             filtered = Kept(search_items,
                             LAMBDA i : ContainsIgnoringCase(search_items[i], q))
        /\ (q = <<"f", "o", "o">> /\ Len(search_items) = 3
              /\ search_items[1] = <<"F", "o", "o", "b", "a", "r">>
              /\ search_items[2] = <<"b", "a", "z">>
              /\ search_items[3] = <<"f", "o", "o", "d">>) => filtered = <<1, 3>>

C16_Witness ==
    /\ Searched
    /\ popup = Some(SearchPopup(<<"f", "o", "o">>))
    /\ search_items = << <<"F", "o", "o", "b", "a", "r">>, <<"b", "a", "z">>,
                         <<"f", "o", "o", "d">> >>
    /\ filtered = <<1, 3>>

\* C17: with an empty query, with no popup and with a popup that is not Search,
\* the result is every item, in order, each a reference to the original.
C17_Unfiltered ==
    (Searched /\ (~SearchActive \/ Unwrap(popup).query = <<>>)) =>
        /\ Len(filtered) = Len(search_items)
        /\ \A i \in 1..Len(filtered) : filtered[i] = i

C17_Witness ==
    /\ Searched
    /\ popup = Some(SearchPopup(<<>>))
    /\ Len(search_items) = 2
    /\ search_items[1] = <<"b", " ">>
    /\ filtered = <<1, 2>>


\* the fields the dispatch table lets an event write
Writes(ev) ==
    CASE ev = "GetCurrentPlaybackContext" -> {"current_playback_context"}
      [] ev = "GetPlaylist" -> {"current_playlist"}
      [] ev = "GetCurrentPlaylistTracks" -> {"current_playlist_tracks"}
      [] ev = "Quit" -> {"is_running"}
      [] OTHER -> {}

\* C18: a successfully handled event changes no field but the one the
\* dispatch table gives it, and that one holds the value the event produced:
\* the fetched context (absent included), the fetched playlist, a track list,
\* is_running = false.
C18_FrameEffect ==
    result = "ok" =>
        /\ changed \subseteq Writes(event)
        /\ event = "GetCurrentPlaybackContext" => state.current_playback_context = pages[1]
        /\ event = "GetPlaylist" => state.current_playlist = Some(pages[1])
        /\ event = "GetCurrentPlaylistTracks" => IsSome(state.current_playlist_tracks)
        /\ event = "Quit" => ~state.is_running

C18_Witness ==
    /\ result = "ok"
    /\ event = "GetPlaylist"
    /\ changed = {"current_playlist"}
    /\ IsSome(state.current_playlist_tracks)
    /\ Unwrap(state.current_playlist_tracks) # <<>>
    /\ HasContext
    /\ ~state.is_running

\* C19 as claimed: handlers of one client interleave: while the fetch of
\* GetCurrentPlaybackContext is in flight, a NextSong can be dispatched to the
\* same client (and complete before the fetched context is written).
C19_HandlersInterleave ==
    (pc = "await" /\ event = "GetCurrentPlaybackContext") => ENABLED NextSong

\* C19 as amended: handlers of one client never interleave: while a call is in
\* flight no other event starts, and the playback context is written only by
\* the step that ends the GetCurrentPlaybackContext handler whose fetch, the
\* only call issued since it started, was in flight.
C19_NoInterleaving ==
    [][/\ pc = "await" => event' = event
       /\ state'.current_playback_context # state.current_playback_context =>
            /\ pc = "await"
            /\ event = "GetCurrentPlaybackContext"
            /\ Len(calls) = 1
            /\ calls[1].op = "current_playback"
            /\ pc' = "idle"]_vars

C19_Witness ==
    /\ pc = "await"
    /\ event = "GetCurrentPlaybackContext"
    /\ HasContext
    /\ ~ENABLED NextSong

\* C20: with no current playlist stored, GetCurrentPlaylistTracks succeeds
\* without a remote call and stores a present, empty track list.
C20_NoPlaylistEmptyTracks ==
    (event = "GetCurrentPlaylistTracks" /\ ~IsSome(state.current_playlist)) =>
        /\ pc = "idle"
        /\ result = "ok"
        /\ Len(calls) = 0
        /\ state.current_playlist_tracks = Some(<<>>)

C20_Witness ==
    /\ event = "GetCurrentPlaylistTracks"
    /\ ~IsSome(state.current_playlist)
    /\ result = "ok"
    /\ changed = {"current_playlist_tracks"}
    /\ state.current_playlist_tracks = Some(<<>>)

====
